---- MODULE Spec2Model ----
(***************************************************************************)
(* The type checker of backend/src/type_check.rs: the WithTag / Tagged     *)
(* contract instantiated at Tag = Type.  `tag` turns a bare tree and a     *)
(* mutable environment into a tagged tree or a list of diagnostics;        *)
(* `untag` erases the tags again.                                          *)
(*                                                                         *)
(* Trees are records with a variant field k.  Optional children            *)
(* (Block.end) are sequences of length 0 or 1.  The environment            *)
(* (codegen::Map<Type>, a HashMap<String, Type>) is a function from the    *)
(* set of bound names to types.  A `&mut env` parameter is modelled by     *)
(* returning the environment next to the result; `&mut env.clone()` by     *)
(* dropping the environment the callee returns.                            *)
(***************************************************************************)
EXTENDS Integers, Sequences, FiniteSets, TLC

VARIABLES cat, node, env0, env, res, erased, pc

vars == <<cat, node, env0, env, res, erased, pc>>

(***************************************************************************)
(* Type model                                                              *)
(***************************************************************************)
Forbidden == [k |-> "Forbidden"]

I32Ty == [k |-> "I32Ty"]

Enum(name, variants) == [k |-> "Enum", name |-> name, variants |-> variants]

FunctionTy(args, ret) == [k |-> "FunctionTy", args |-> args, ret |-> ret]

\* The enumeration built in place by get_tag (Stmt), Statement::tag
\* (TermSemicolon) and Block::tag (no trailing term).
unit_enum == Enum("Unit", <<"unit">>)

RECURSIVE HasForbidden(_)
\* Whether formatting ty reaches the Forbidden arm of Display, which is
\* unreachable!(): a panic.
HasForbidden(ty) ==
    CASE ty.k = "Forbidden" -> TRUE
      [] ty.k = "FunctionTy" ->
            \/ \E i \in 1..Len(ty.args) : HasForbidden(ty.args[i])
            \/ HasForbidden(ty.ret)
      [] OTHER -> FALSE

RECURSIVE Display(_)
\* Display for Type, on the types whose formatting does not panic.
Display(ty) ==
    CASE ty.k = "Enum" -> ty.name
      [] ty.k = "I32Ty" -> "I32"
      [] ty.k = "FunctionTy" ->
            LET RECURSIVE Push(_)
                Push(i) == IF i = 0 THEN ""
                           ELSE Push(i - 1) \o Display(ty.args[i]) \o ", "
            IN "(" \o Push(Len(ty.args)) \o ") -> " \o Display(ty.ret)
      [] OTHER -> "<unreachable>"

\* Display for ast::Operator: the operator's symbol.
DisplayOperator(op) == op

(***************************************************************************)
(* Environment                                                             *)
(***************************************************************************)
EmptyEnv == [n \in {} |-> I32Ty]

Bound(e, name) == name \in DOMAIN e

Insert(e, name, ty) ==
    [n \in (DOMAIN e) \cup {name} |-> IF n = name THEN ty ELSE e[n]]

(***************************************************************************)
(* Results: Result<Tagged, Vec<String>> together with the environment the  *)
(* callee leaves in its &mut parameter; a panic unwinds through every      *)
(* caller.                                                                 *)
(***************************************************************************)
Ok(val, e) == [st |-> "Ok", val |-> val, env |-> e]

Err(errs, e) == [st |-> "Err", errs |-> errs, env |-> e]

Panic(e) == [st |-> "Panic", env |-> e]

\* format!(...) of a message that renders the types tys: the message, or a
\* panic when one of them cannot be rendered.
ErrRendering(tys, msg, e) ==
    IF \E i \in 1..Len(tys) : HasForbidden(tys[i]) THEN Panic(e)
    ELSE Err(<<msg>>, e)

\* The callee ran on env.clone(): the live environment is still e.
OnClone(r, e) == [r EXCEPT !.env = e]

(***************************************************************************)
(* Bare trees (ast)                                                        *)
(***************************************************************************)
FunctionCall(name) == [name |-> name]

Literal(i) == [k |-> "Literal", i |-> i]

Var(name) == [k |-> "Var", name |-> name]

Infix(left, op, right) ==
    [k |-> "Infix", left |-> left, op |-> op, right |-> right]

Call(func, args) == [k |-> "Call", func |-> func, args |-> args]

Scope(block) == [k |-> "Scope", block |-> block]

If(if_clause, then_clause, else_clause) ==
    [k |-> "If", if_clause |-> if_clause, then_clause |-> then_clause,
     else_clause |-> else_clause]

While(cond, block) == [k |-> "While", cond |-> cond, block |-> block]

Stmt(stmt) == [k |-> "Stmt", stmt |-> stmt]

TermSemicolon(term) == [k |-> "TermSemicolon", term |-> term]

Let(name, term) == [k |-> "Let", name |-> name, term |-> term]

LetMut(name, term) == [k |-> "LetMut", name |-> name, term |-> term]

Mutate(name, term) == [k |-> "Mutate", name |-> name, term |-> term]

Extern(name, ty) == [k |-> "Extern", name |-> name, ty |-> ty]

Block(stmts, end) == [stmts |-> stmts, end |-> end]

Program(main) == [main |-> main]

\* The tagged counterpart of a bare node: the same fields plus one tag.
WithTag(tag, n) ==
    [f \in (DOMAIN n) \cup {"tag"} |-> IF f = "tag" THEN tag ELSE n[f]]

(***************************************************************************)
(* tag                                                                     *)
(*                                                                         *)
(* Each rule is written as the code runs it: the sub-computations in       *)
(* order, each on the environment the ones before it left, the first       *)
(* failure returned as it is (try!).  A sub-computation handed             *)
(* `&mut env.clone()` leaves the live environment as it was.               *)
(***************************************************************************)
\* WithTag::tag, dispatched on the implementing type c.
RECURSIVE Tag(_, _, _)
RECURSIVE TagArgs(_, _, _, _, _, _, _), TagStmts(_, _, _, _)

\* WithTag<Type> for FunctionCall
TagFunctionCall(fc, e) ==
    IF ~Bound(e, fc.name)
    THEN Err(<<"Function " \o fc.name \o " is undeclared.">>, e)
    ELSE LET func_ty == e[fc.name]
         IN IF func_ty.k = "FunctionTy"
            THEN Ok([tag |-> func_ty, name |-> fc.name], e)
            ELSE ErrRendering(<<func_ty>>,
                    fc.name \o " is called as a function, but it has type "
                        \o Display(func_ty), e)

\* Mutant: the Stmt arm hands out the wrapped statement's own tag.
GetTag_OfStatement(tt) == IF tt.k = "Stmt" THEN tt.stmt.tag ELSE tt.tag

\* Tagged<Type>::get_tag for TaggedTerm
GetTag(tt) == IF tt.k = "Stmt" THEN unit_enum ELSE tt.tag

\* The live environment after the left operand of an Infix ran on
\* env.clone() and returned l.
InfixLeftLeaves(e, l) == e

\* The operand test of Infix: both operands are I32Ty.
OperandsAreI32(left_ty, right_ty) == left_ty = I32Ty /\ right_ty = I32Ty

\* The end of Term::Infix once both operands are tagged: the operand test.
InfixEnd(t, tagged_left, tagged_right, e) ==
    LET left_ty == GetTag(tagged_left)
        right_ty == GetTag(tagged_right)
    IN IF OperandsAreI32(left_ty, right_ty)
       THEN Ok([k |-> "Infix", tag |-> left_ty, left |-> tagged_left,
                op |-> t.op, right |-> tagged_right], e)
       ELSE ErrRendering(<<left_ty, right_ty>>,
               "The left-hand-side of " \o DisplayOperator(t.op)
                 \o " has type " \o Display(left_ty)
                 \o ", but the right-hand-side of it has type "
                 \o Display(right_ty) \o ".", e)

\* tagged_args.push under `if !has_error`
PushArg(has_error, tagged_args, tagged_arg) ==
    IF ~has_error THEN Append(tagged_args, tagged_arg) ELSE tagged_args

\* Mutant: the loop over the arguments ends at the first mismatch.
AfterMismatch_Break(i, n) == n + 1

\* The pair the loop over the arguments takes up after a mismatch at pair i
\* of n: the next one.
AfterMismatch(i, n) == i + 1

\* The live environment after an argument ran on env.clone() and returned a.
ArgLeaves(e, a) == e

\* The loop `for (expected, actual) in pairs` of Term::Call, from pair i on.
\* It ends early with the result of a failing argument (try!), or in a panic
\* of the message's formatting; else with what it has collected.
TagArgs(expected, args, i, has_error, tagged_args, errors, e) ==
    IF i > Len(args) \/ i > Len(expected)
    THEN [st |-> "Done", tagged_args |-> tagged_args, errors |-> errors,
          env |-> e]
    ELSE LET expected_ty == expected[i]
             a == Tag("Term", args[i], e)
             live == ArgLeaves(e, a)
         IN IF a.st # "Ok" THEN OnClone(a, live)
            ELSE LET pushed == PushArg(has_error, tagged_args, a.val)
                     actual_ty == GetTag(a.val)
                 IN IF expected_ty # actual_ty
                    THEN IF HasForbidden(expected_ty) \/ HasForbidden(actual_ty)
                         THEN Panic(live)
                         ELSE TagArgs(expected, args,
                                  AfterMismatch(i, Len(args)), TRUE, pushed,
                                  Append(errors,
                                     "Expect term of type " \o Display(expected_ty)
                                       \o ", found term of type "
                                       \o Display(actual_ty) \o "."), live)
                    ELSE TagArgs(expected, args, i + 1, has_error, pushed,
                                 errors, live)

\* Mutant: too few arguments pass the arity test.
ArityMatches_AtMost(expected_arity, actual_arity) == actual_arity <= expected_arity

\* The arity test of Term::Call.
ArityMatches(expected_arity, actual_arity) == expected_arity = actual_arity

\* `Function {} expects {} argument(s), but {} are provided.`
ArityMessage(name, expected_arity, actual_arity) ==
    "Function " \o name \o " expects " \o ToString(expected_arity)
      \o " argument(s), but " \o ToString(actual_arity) \o " are provided."

\* The end of Term::Call once the loop over the arguments has run through:
\* the tagged call, with the callee resolved again on the live environment,
\* or the collected errors.
CallEnd(t, expected_ret_ty, loop) ==
    IF Len(loop.errors) = 0
    THEN LET again == TagFunctionCall(t.func, loop.env)
         IN IF again.st # "Ok" THEN again
            ELSE Ok([k |-> "Call", tag |-> expected_ret_ty, func |-> again.val,
                     args |-> loop.tagged_args], again.env)
    ELSE Err(loop.errors, loop.env)

\* Mutant: the clause is given the live environment itself.
IfClauseLeaves_Live(e, r) == r.env

\* The live environment after a clause of an If ran on env.clone() and
\* returned r.
IfClauseLeaves(e, r) == e

\* Mutant: the branch types are compared by their rendered names.
BranchTypesEqual_ByName(then_ty, else_ty) == Display(then_ty) = Display(else_ty)

\* The branch test of If: equality of the two types.
BranchTypesEqual(then_ty, else_ty) == then_ty = else_ty

\* The end of Term::If once the three clauses are tagged: the branch test.
IfEnd(tagged_if, tagged_then, tagged_else, e) ==
    LET then_ty == GetTag(tagged_then)
        else_ty == GetTag(tagged_else)
    IN IF BranchTypesEqual(then_ty, else_ty)
       THEN Ok([k |-> "If", tag |-> then_ty, if_clause |-> tagged_if,
                then_clause |-> tagged_then, else_clause |-> tagged_else], e)
       ELSE ErrRendering(<<then_ty, else_ty>>,
               "The term of the then part has type " \o Display(then_ty)
                 \o ", but that of the else part has type "
                 \o Display(else_ty) \o ".", e)

\* The live environment after the condition of a While ran on env.clone()
\* and returned c.
WhileCondLeaves(e, c) == e

\* The condition test of While.
CondIsI32(cond_ty) == cond_ty = I32Ty

\* WithTag<Type> for Term
TagTerm(t, e) ==
    CASE t.k = "Literal" -> Ok(WithTag(I32Ty, t), e)
      [] t.k = "Var" ->
            IF Bound(e, t.name) THEN Ok(WithTag(e[t.name], t), e)
            ELSE Err(<<"Undeclared variable " \o t.name \o ".">>, e)
      [] t.k = "Infix" ->
            LET l == Tag("Term", t.left, e)
                live == InfixLeftLeaves(e, l)
            IN IF l.st # "Ok" THEN OnClone(l, live)
               ELSE LET r == Tag("Term", t.right, live)
                    IN IF r.st # "Ok" THEN r
                       ELSE InfixEnd(t, l.val, r.val, r.env)
      [] t.k = "Call" ->
            LET typed_func == OnClone(TagFunctionCall(t.func, e), e)
            IN IF typed_func.st # "Ok" THEN typed_func
               ELSE LET expected_args_types == typed_func.val.tag.args
                        expected_arity == Len(expected_args_types)
                        actual_arity == Len(t.args)
                    IN IF ArityMatches(expected_arity, actual_arity)
                       THEN LET loop == TagArgs(expected_args_types, t.args, 1,
                                                FALSE, <<>>, <<>>, e)
                            IN IF loop.st # "Done" THEN loop
                               ELSE CallEnd(t, typed_func.val.tag.ret, loop)
                       ELSE Err(<<ArityMessage(t.func.name, expected_arity,
                                               actual_arity)>>, e)
      [] t.k = "Scope" ->
            LET b == Tag("Block", t.block, e)
            IN IF b.st # "Ok" THEN b
               ELSE Ok([k |-> "Scope", tag |-> b.val.tag, block |-> b.val], b.env)
      [] t.k = "If" ->
            LET c == Tag("Term", t.if_clause, e)
                e1 == IfClauseLeaves(e, c)
            IN IF c.st # "Ok" THEN OnClone(c, e1)
               ELSE LET th == Tag("Term", t.then_clause, e1)
                        e2 == IfClauseLeaves(e1, th)
                    IN IF th.st # "Ok" THEN OnClone(th, e2)
                       ELSE LET el == Tag("Term", t.else_clause, e2)
                                e3 == IfClauseLeaves(e2, el)
                            IN IF el.st # "Ok" THEN OnClone(el, e3)
                               ELSE IfEnd(c.val, th.val, el.val, e3)
      [] t.k = "While" ->
            LET c == Tag("Term", t.cond, e)
                live == WhileCondLeaves(e, c)
            IN IF c.st # "Ok" THEN OnClone(c, live)
               ELSE IF ~CondIsI32(GetTag(c.val))
               THEN Err(<<"The condition of a while loop should be of type I32">>,
                        live)
               ELSE LET b == Tag("Block", t.block, live)
                    IN IF b.st # "Ok" THEN b
                       ELSE Ok([k |-> "While", tag |-> b.val.tag, cond |-> c.val,
                                block |-> b.val], b.env)
      [] t.k = "Stmt" ->
            LET s == Tag("Statement", t.stmt, e)
            IN IF s.st # "Ok" THEN s
               ELSE Ok([k |-> "Stmt", stmt |-> s.val], s.env)

\* Mutant: the term is given the live environment itself.
TermSemicolonLeaves_Live(e, r) == r.env

\* The live environment after the term of an expression-statement ran on
\* env.clone() and returned r.
TermSemicolonLeaves(e, r) == e

\* Mutant: the bound term is given the live environment itself.
LetTermLeaves_Live(e, r) == r.env

\* The live environment after the bound term of a let or let-mutable ran on
\* env.clone() and returned r.
LetTermLeaves(e, r) == e

\* Mutant: the assigned term is given the live environment itself.
MutateTermLeaves_Live(e, r) == r.env

\* The live environment after the assigned term of an assignment ran on
\* env.clone() and returned r.
MutateTermLeaves(e, r) == e

\* Mutant: the binding is inserted into a clone and lost.
LetInsert_IntoClone(e, name, tagged_term) == e

\* What Statement::Let and Statement::LetMut do to the environment once the
\* bound term is tagged: env.insert(name, tag of the term).
LetInsert(e, name, tagged_term) == Insert(e, name, GetTag(tagged_term))

\* Mutant: the assignment binds the name like a let.
MutateInsert_Binds(e, name, tagged_term) == Insert(e, name, GetTag(tagged_term))

\* What Statement::Mutate does to the environment once the assigned term is
\* tagged: nothing.
MutateInsert(e, name, tagged_term) == e

\* WithTag<Type> for Statement
TagStatement(s, e) ==
    CASE s.k = "TermSemicolon" ->
            LET tagged_term == Tag("Term", s.term, e)
                live == TermSemicolonLeaves(e, tagged_term)
            IN IF tagged_term.st # "Ok" THEN OnClone(tagged_term, live)
               ELSE Ok([k |-> "TermSemicolon", tag |-> unit_enum,
                        term |-> tagged_term.val], live)
      [] s.k \in {"Let", "LetMut"} ->
            LET tagged_term == Tag("Term", s.term, e)
                live == LetTermLeaves(e, tagged_term)
            IN IF tagged_term.st # "Ok" THEN OnClone(tagged_term, live)
               ELSE Ok([k |-> s.k, tag |-> Forbidden, name |-> s.name,
                        term |-> tagged_term.val],
                       LetInsert(live, s.name, tagged_term.val))
      [] s.k = "Mutate" ->
            LET tagged_term == Tag("Term", s.term, e)
                live == MutateTermLeaves(e, tagged_term)
            IN IF tagged_term.st # "Ok" THEN OnClone(tagged_term, live)
               ELSE Ok([k |-> "Mutate", tag |-> Forbidden, name |-> s.name,
                        term |-> tagged_term.val],
                       MutateInsert(live, s.name, tagged_term.val))
      [] s.k = "Extern" ->
            Ok([k |-> "Extern", tag |-> Forbidden, name |-> s.name,
                ty |-> s.ty], Insert(e, s.name, s.ty))

\* Mutant: the block adds a line of its own to a statement's diagnostics.
TryStmt_Annotated(r) ==
    IF r.st = "Err" THEN [r EXCEPT !.errs = <<"In this block:">> \o @] ELSE r

\* try!(stmt.tag(env)) on a failure r: r is returned as it is.
TryStmt(r) == r

\* The loop `for stmt in &self.stmts` of Block::tag, from statement i on.
TagStmts(stmts, i, tagged_stmts, e) ==
    IF i > Len(stmts)
    THEN [st |-> "Done", tagged_stmts |-> tagged_stmts, env |-> e]
    ELSE LET tagged_stmt == Tag("Statement", stmts[i], e)
         IN IF tagged_stmt.st # "Ok" THEN TryStmt(tagged_stmt)
            ELSE TagStmts(stmts, i + 1, Append(tagged_stmts, tagged_stmt.val),
                          tagged_stmt.env)

\* WithTag<Type> for Block
TagBlock(b, e) ==
    LET loop == TagStmts(b.stmts, 1, <<>>, e)
    IN IF loop.st # "Done" THEN loop
       ELSE IF b.end = <<>>
       THEN Ok([tag |-> unit_enum, stmts |-> loop.tagged_stmts, end |-> <<>>],
               loop.env)
       ELSE LET end == Tag("Term", b.end[1], loop.env)
            IN IF end.st # "Ok" THEN end
               ELSE Ok([tag |-> GetTag(end.val), stmts |-> loop.tagged_stmts,
                        end |-> <<end.val>>], end.env)

Tag(c, n, e) ==
    CASE c = "Term" -> TagTerm(n, e)
      [] c = "Statement" -> TagStatement(n, e)
      [] c = "Block" -> TagBlock(n, e)

\* WithTag<Type> for Program
TagProgram(p, e) ==
    LET main == Tag("Block", p.main, e)
    IN IF main.st # "Ok" THEN main
       ELSE Ok([tag |-> Forbidden, main |-> main.val], main.env)

(***************************************************************************)
(* untag                                                                   *)
(***************************************************************************)
RECURSIVE UntagTerm(_), UntagStatement(_), UntagBlock(_)

\* Tagged<Type>::untag for TaggedFunctionCall
UntagFunctionCall(tf) == FunctionCall(tf.name)

\* args.iter().map(|arg| arg.untag()).collect()
UntagArgs(args) == [i \in 1..Len(args) |-> UntagTerm(args[i])]

\* Tagged<Type>::untag for TaggedTerm
UntagTerm(tt) ==
    CASE tt.k = "Literal" -> Literal(tt.i)
      [] tt.k = "Var" -> Var(tt.name)
      [] tt.k = "Infix" -> Infix(UntagTerm(tt.left), tt.op, UntagTerm(tt.right))
      [] tt.k = "Call" -> Call(UntagFunctionCall(tt.func), UntagArgs(tt.args))
      [] tt.k = "Scope" -> Scope(UntagBlock(tt.block))
      [] tt.k = "If" -> If(UntagTerm(tt.if_clause), UntagTerm(tt.then_clause),
                           UntagTerm(tt.else_clause))
      [] tt.k = "While" -> While(UntagTerm(tt.cond), UntagBlock(tt.block))
      [] tt.k = "Stmt" -> Stmt(UntagStatement(tt.stmt))

\* Mutant: the LetMut arm builds a Let.
UntagStatement_LetForLetMut(ts) ==
    CASE ts.k = "TermSemicolon" -> TermSemicolon(UntagTerm(ts.term))
      [] ts.k \in {"Let", "LetMut"} -> Let(ts.name, UntagTerm(ts.term))
      [] ts.k = "Mutate" -> Mutate(ts.name, UntagTerm(ts.term))
      [] ts.k = "Extern" -> Extern(ts.name, ts.ty)

\* Tagged<Type>::untag for TaggedStatement
UntagStatement(ts) ==
    CASE ts.k = "TermSemicolon" -> TermSemicolon(UntagTerm(ts.term))
      [] ts.k = "Let" -> Let(ts.name, UntagTerm(ts.term))
      [] ts.k = "LetMut" -> LetMut(ts.name, UntagTerm(ts.term))
      [] ts.k = "Mutate" -> Mutate(ts.name, UntagTerm(ts.term))
      [] ts.k = "Extern" -> Extern(ts.name, ts.ty)

\* Tagged<Type>::untag for TaggedBlock
UntagBlock(tb) ==
    Block([i \in 1..Len(tb.stmts) |-> UntagStatement(tb.stmts[i])],
          [i \in 1..Len(tb.end) |-> UntagTerm(tb.end[i])])

\* Tagged<Type>::untag for TaggedProgram
UntagProgram(tp) == Program(UntagBlock(tp.main))

(***************************************************************************)
(* Inputs: the environments and bare trees the checker is run on.          *)
(***************************************************************************)
\* At most this many arguments in an enumerated call.
MaxArgs == 3

\* At most this many statements in an enumerated top-level block.
MaxStmts == 2

EnumE == Enum("E", <<"a", "b">>)

\* Same name as EnumE, another variant list.
EnumE2 == Enum("E", <<"a">>)

F2 == FunctionTy(<<I32Ty, I32Ty>>, I32Ty)

G1 == FunctionTy(<<EnumE>>, EnumE)

EnvFull ==
    [n \in {"f", "g", "e", "d", "x"} |->
        CASE n = "f" -> F2 [] n = "g" -> G1 [] n = "e" -> EnumE
          [] n = "d" -> EnumE2 [] n = "x" -> I32Ty]

\* Environments free of Forbidden: nothing bound; functions, enumeration
\* values and an integer bound; z bound beforehand; f bound to a non-function.
Envs == {EmptyEnv, EnvFull, Insert(EnvFull, "z", EnumE), Insert(EnvFull, "f", I32Ty)}

\* Environments holding Forbidden, bare or nested in a function type.
ForbiddenEnvs ==
    {Insert(EnvFull, "e", Forbidden),
     Insert(EnvFull, "g", FunctionTy(<<Forbidden>>, Forbidden))}

ExternTypes == {EnumE2, F2}

SeqsUpTo(S, n) == UNION {[1..m -> S] : m \in 0..n}

Atoms == {Literal(1), Var("x"), Var("e"), Var("d"), Var("z")}

LetZ5 == Let("z", Literal(5))

\* Terms that bind z when they are checked.
Binders ==
    {Stmt(LetZ5), Scope(Block(<<LetZ5>>, <<Var("z")>>)),
     Stmt(Extern("z", EnumE))}

Small == Atoms \cup Binders

Bodies ==
    {Block(<<>>, <<>>), Block(<<LetZ5>>, <<>>), Block(<<>>, <<Var("z")>>),
     Block(<<Let("z", Var("e"))>>, <<Var("z")>>),
     Block(<<LetZ5, Let("x", Var("d"))>>, <<>>),
     Block(<<TermSemicolon(Var("x")), LetMut("z", Var("x"))>>, <<Var("u")>>)}

\* `while 1 { let z = 5; }`
LoopZ == While(Literal(1), Block(<<LetZ5>>, <<>>))

ArgTerms == {Literal(1), Var("e"), Var("z"), Stmt(LetZ5)}

StmtTerms == Small \cup {Infix(Var("x"), "+", Literal(2)), LoopZ}

StatementsOver(tys) ==
    {TermSemicolon(t) : t \in StmtTerms}
      \cup UNION {{Let(n, t), LetMut(n, t), Mutate(n, t)} :
                    n \in {"x", "z"}, t \in StmtTerms}
      \cup {Extern(n, ty) : n \in {"x", "z"}, ty \in tys}

BlockStmtsOver(tys) ==
    {Let("x", Literal(1)), Let("z", Var("e")), LetMut("z", Literal(5)),
     TermSemicolon(Var("z")), Let("x", Var("z")), Mutate("z", Var("e")),
     TermSemicolon(LoopZ), Let("x", LoopZ), TermSemicolon(Stmt(LetZ5))}
      \cup {Extern("z", ty) : ty \in tys}

Ends ==
    {<<>>, <<Var("z")>>, <<Var("x")>>, <<Infix(Var("x"), "+", Literal(2))>>,
     <<Infix(Scope(Block(<<LetZ5>>, <<Var("z")>>)), "+", Var("z"))>>}

BlocksOver(tys) ==
    {Block(ss, end) : ss \in SeqsUpTo(BlockStmtsOver(tys), MaxStmts), end \in Ends}

TermsOver(tys) ==
    {Infix(l, op, r) : l \in Small, op \in {"+", "*"}, r \in Small}
      \cup {If(c, t, e) : c \in Small, t \in Small, e \in Small}
      \cup {While(c, b) : c \in Small, b \in Bodies}
      \cup {Call(FunctionCall(f), as) : f \in {"f", "g"},
                                        as \in SeqsUpTo(ArgTerms, MaxArgs)}
      \cup {Scope(b) : b \in Bodies}
      \cup {Stmt(s) : s \in StatementsOver(tys)}
      \cup Atoms

ProgramsOver(tys) ==
    {Program(b) : b \in Bodies}
      \cup {Program(Block(<<s>>, <<Var("z")>>)) : s \in BlockStmtsOver(tys)}
      \cup {Program(Block(<<s>>, <<Scope(Block(<<t>>, end))>>)) :
                s \in BlockStmtsOver(tys), t \in BlockStmtsOver(tys),
                end \in Ends}

FunctionCalls == {FunctionCall(n) : n \in {"f", "g", "e", "z"}}

None == [st |-> "None"]

(***************************************************************************)
(* The state machine: one run of tag on an input, then untag of a          *)
(* successful result.                                                      *)
(***************************************************************************)
InitOver(envs, tys) ==
    /\ env0 \in envs
    /\ env = env0
    /\ res = None
    /\ erased = None
    /\ pc = "start"
    /\ \/ cat = "Term" /\ node \in TermsOver(tys)
       \/ cat = "Statement" /\ node \in StatementsOver(tys)
       \/ cat = "Block" /\ node \in BlocksOver(tys)
       \/ cat = "Program" /\ node \in ProgramsOver(tys)
       \/ cat = "FunctionCall" /\ node \in FunctionCalls

Init == InitOver(Envs, ExternTypes)

InitF == InitOver(Envs \cup ForbiddenEnvs, ExternTypes \cup {Forbidden})

\* r is what tag returned and left in its &mut environment.
Tagged(r) ==
    /\ res' = [f \in (DOMAIN r) \ {"env"} |-> r[f]]
    /\ env' = r.env
    /\ pc' = "tagged"
    /\ UNCHANGED <<cat, node, env0, erased>>

CheckTerm == pc = "start" /\ cat = "Term" /\ Tagged(Tag("Term", node, env))

CheckStatement ==
    pc = "start" /\ cat = "Statement" /\ Tagged(Tag("Statement", node, env))

CheckBlock == pc = "start" /\ cat = "Block" /\ Tagged(Tag("Block", node, env))

CheckProgram == pc = "start" /\ cat = "Program" /\ Tagged(TagProgram(node, env))

CheckFunctionCall ==
    pc = "start" /\ cat = "FunctionCall" /\ Tagged(TagFunctionCall(node, env))

Untagged(bare) ==
    /\ erased' = bare
    /\ pc' = "untagged"
    /\ UNCHANGED <<cat, node, env0, env, res>>

EraseTerm ==
    pc = "tagged" /\ res.st = "Ok" /\ cat = "Term" /\ Untagged(UntagTerm(res.val))

EraseStatement ==
    /\ pc = "tagged" /\ res.st = "Ok" /\ cat = "Statement"
    /\ Untagged(UntagStatement(res.val))

EraseBlock ==
    pc = "tagged" /\ res.st = "Ok" /\ cat = "Block" /\ Untagged(UntagBlock(res.val))

EraseProgram ==
    /\ pc = "tagged" /\ res.st = "Ok" /\ cat = "Program"
    /\ Untagged(UntagProgram(res.val))

EraseFunctionCall ==
    /\ pc = "tagged" /\ res.st = "Ok" /\ cat = "FunctionCall"
    /\ Untagged(UntagFunctionCall(res.val))

Next ==
    \/ CheckTerm
    \/ CheckStatement
    \/ CheckBlock
    \/ CheckProgram
    \/ CheckFunctionCall
    \/ EraseTerm
    \/ EraseStatement
    \/ EraseBlock
    \/ EraseProgram
    \/ EraseFunctionCall

Spec == Init /\ [][Next]_vars

\* The same machine on inputs that may hold Forbidden.
SpecF == InitF /\ [][Next]_vars

(***************************************************************************)
(* Claims                                                                  *)
(***************************************************************************)
\* The node is a term of variant k.
IsTerm(k) == cat = "Term" /\ node.k = k

\* C1: round-trip law.  Whenever tag succeeded on a bare tree (of any of the
\* five categories) and untag was applied to the tagged result, the erased
\* tree is the bare tree that was checked.
C1_RoundTrip == pc = "untagged" => erased = node

\* A successful call with two or more arguments has been tagged and erased.
C1_Witness ==
    /\ pc = "untagged"
    /\ IsTerm("Call")
    /\ Len(node.args) >= 2

\* Statement s binds name n in the live environment.
BindsName(s, n) == s.k \in {"Let", "LetMut", "Extern"} /\ s.name = n

\* The block under check, cut after its first m statements.
Prefix(m) == TagBlock(Block(SubSeq(node.stmts, 1, m), <<>>), env0)

\* The type statement i of the tagged statement list ts binds its name to.
BoundType(ts, i) ==
    IF ts[i].k = "Extern" THEN ts[i].ty ELSE GetTag(ts[i].term)

\* Position j of the block (a statement, or the trailing term at
\* Len(stmts) + 1) is a reference to n: the term of the statement, or the
\* trailing term, is Var(n).
RefersTo(j, n) ==
    IF j <= Len(node.stmts)
    THEN node.stmts[j].k # "Extern" /\ node.stmts[j].term = Var(n)
    ELSE node.end = <<Var(n)>>

\* The reference at position j of the tagged block tb.
TaggedRef(tb, j) == IF j <= Len(tb.stmts) THEN tb.stmts[j].term ELSE tb.end[1]

\* The statement s is a while loop with a literal condition whose body binds
\* n by let, standing in a block's statement list without binding n itself.
IsLoopStmt(s, n) ==
    /\ s.k \in {"TermSemicolon", "Let", "LetMut", "Mutate"}
    /\ s.k \in {"Let", "LetMut"} => s.name # n
    /\ s.term.k = "While"
    /\ s.term.cond.k = "Literal"
    /\ \E j \in 1..Len(s.term.block.stmts) :
          /\ s.term.block.stmts[j].k = "Let"
          /\ s.term.block.stmts[j].name = n

\* In the block under check statement i is a loop binding z in its body,
\* position j after it is a reference to z, no statement between them binds
\* z, and the statements before j check successfully.
LoopThenRef(i, j) ==
    /\ i < j
    /\ IsLoopStmt(node.stmts[i], "z")
    /\ RefersTo(j, "z")
    /\ \A m \in (i + 1)..(j - 1) : ~BindsName(node.stmts[m], "z")
    /\ Prefix(j - 1).st = "Ok"

\* The positions of a block: its statements, then its trailing term.
Positions == 1..(Len(node.stmts) + 1)

\* The environment the While term of statement i leaves when it is checked
\* in the environment the statements before it left.
LoopLeaves(i) == TagTerm(node.stmts[i].term, Prefix(i - 1).env).env

\* C2 as stated: a reference to z that follows such a loop in the same block
\* finds z bound to the type the loop body bound it to, and a block whose
\* trailing term is that reference succeeds.
C2_Original ==
    (pc = "tagged" /\ cat = "Block") =>
        \A i \in 1..Len(node.stmts), j \in Positions :
           LoopThenRef(i, j) =>
              /\ Bound(Prefix(j - 1).env, "z")
              /\ Prefix(j - 1).env["z"] = LoopLeaves(i)["z"]
              /\ j = Len(node.stmts) + 1 =>
                    res.st = "Ok" /\ res.val.end[1].tag = LoopLeaves(i)["z"]

\* A term that binds nothing when it is checked.
BindsNothing(end) == end = <<>> \/ end[1].k \in {"Literal", "Var"}

\* C2 amended: the bindings of a loop body are in the environment the check
\* of the While term itself leaves (the last let of a name in the body gives
\* the name its type), but a loop standing as a statement of a block is
\* checked on a snapshot: a reference to z that follows it in the block finds
\* z as it was before the loop, with the type it had then, and fails as
\* undeclared if z was unbound.
C2_Amended ==
    /\ (pc = "tagged" /\ IsTerm("While") /\ res.st = "Ok"
          /\ BindsNothing(node.block.end)) =>
          \A j \in 1..Len(node.block.stmts) :
             LET s == node.block.stmts[j]
             IN (/\ s.k = "Let"
                 /\ \A i \in (j + 1)..Len(node.block.stmts) :
                       ~BindsName(node.block.stmts[i], s.name))
                  => /\ Bound(env, s.name)
                     /\ env[s.name] = GetTag(res.val.block.stmts[j].term)
    /\ (pc = "tagged" /\ cat = "Block") =>
          \A i \in 1..Len(node.stmts), j \in Positions :
             LoopThenRef(i, j) =>
                LET before == Prefix(i - 1).env
                IN IF Bound(before, "z")
                   THEN /\ Bound(Prefix(j - 1).env, "z")
                        /\ Prefix(j - 1).env["z"] = before["z"]
                        /\ res.st = "Ok" => TaggedRef(res.val, j).tag = before["z"]
                   ELSE /\ ~Bound(Prefix(j - 1).env, "z")
                        /\ res.st = "Err"
                        /\ res.errs = <<"Undeclared variable z.">>

\* `while 1 { let z = 5; }; z` has been checked with nothing bound.
C2_Witness ==
    /\ pc = "tagged"
    /\ cat = "Block"
    /\ node = Block(<<TermSemicolon(LoopZ)>>, <<Var("z")>>)
    /\ LoopThenRef(1, 2)
    /\ env0 = EmptyEnv
    /\ res.st = "Err"

\* C3: isolation.  Checking an If or a Call leaves the live environment as
\* it was, whatever the outcome; after an Infix the environment is the one
\* the right operand alone leaves (the one before, if the left operand
\* failed); after a While it is the one the body alone leaves (the one
\* before, if the condition failed or is not an integer).
C3_Isolation ==
    (pc = "tagged" /\ cat = "Term") =>
        /\ node.k \in {"If", "Call"} => env = env0
        /\ node.k = "Infix" =>
              env = IF TagTerm(node.left, env0).st # "Ok" THEN env0
                    ELSE TagTerm(node.right, env0).env
        /\ node.k = "While" =>
              LET c == TagTerm(node.cond, env0)
              IN env = IF c.st = "Ok" /\ GetTag(c.val) = I32Ty
                       THEN TagBlock(node.block, env0).env
                       ELSE env0

\* An If whose three clauses each bind z has been checked, with z unbound
\* before and after.
C3_Witness ==
    /\ pc = "tagged"
    /\ IsTerm("If")
    /\ res.st = "Ok"
    /\ {node.if_clause, node.then_clause, node.else_clause} \subseteq Binders
    /\ ~Bound(env0, "z")
    /\ ~Bound(env, "z")

\* The call under check has a callee bound to a function type.
CalleeIsFunction ==
    /\ IsTerm("Call")
    /\ Bound(env0, node.func.name)
    /\ env0[node.func.name].k = "FunctionTy"

\* The declared parameter types and return type of the callee.
Params == env0[node.func.name].args

Ret == env0[node.func.name].ret

\* Argument i of the call, checked on a snapshot of the environment.
Arg(i) == TagTerm(node.args[i], env0)

\* Argument i has a type and it is not the declared parameter type.
Mismatching(i) == Arg(i).st = "Ok" /\ GetTag(Arg(i).val) # Params[i]

\* The ArgumentTypeMismatch diagnostic of position i.
MismatchMessage(i) ==
    "Expect term of type " \o Display(Params[i]) \o ", found term of type "
      \o Display(GetTag(Arg(i).val)) \o "."

RECURSIVE MismatchMessages(_)
\* One diagnostic per mismatching position among the first n, in order.
MismatchMessages(n) ==
    IF n = 0 THEN <<>>
    ELSE IF Mismatching(n)
    THEN Append(MismatchMessages(n - 1), MismatchMessage(n))
    ELSE MismatchMessages(n - 1)

\* The arguments whose own check fails, and the first of them.
FailingArgs == {i \in 1..Len(node.args) : Arg(i).st # "Ok"}

FirstFailingArg == CHOOSE i \in FailingArgs : \A j \in FailingArgs : i <= j

\* A call with a mismatching position fails with one diagnostic per
\* mismatching position, in argument order.
MismatchesReported ==
    (\E i \in 1..Len(node.args) : Mismatching(i)) =>
        res.st = "Err" /\ res.errs = MismatchMessages(Len(node.args))

\* A call whose arguments all have the declared types succeeds with the
\* declared return type.
MatchSucceeds ==
    (\A i \in 1..Len(node.args) : Arg(i).st = "Ok" /\ ~Mismatching(i)) =>
        res.st = "Ok" /\ res.val.tag = Ret

\* C4 as stated: for every call of matching arity to a function, one
\* diagnostic per mismatching position, whatever the other arguments are.
C4_Original ==
    (pc = "tagged" /\ CalleeIsFunction /\ Len(node.args) = Len(Params)) =>
        MismatchesReported /\ MatchSucceeds

\* C4 amended: in a call of matching arity to a function, if every argument
\* checks successfully on its snapshot, each mismatching position gives one
\* ArgumentTypeMismatch diagnostic, in argument order, and with no mismatch
\* the call succeeds with the declared return type; if some argument fails
\* its own check, the call fails with the diagnostics of the first such
\* argument alone and the mismatches found before it are dropped.
C4_Amended ==
    (pc = "tagged" /\ CalleeIsFunction /\ Len(node.args) = Len(Params)) =>
        IF FailingArgs = {} THEN MismatchesReported /\ MatchSucceeds
        ELSE res.st = "Err" /\ res.errs = Arg(FirstFailingArg).errs

\* A call with two mismatching positions has been checked and reports two
\* different diagnostics.
C4_Witness ==
    /\ pc = "tagged"
    /\ CalleeIsFunction
    /\ Len(node.args) = Len(Params)
    /\ FailingArgs = {}
    /\ res.st = "Err"
    /\ Len(res.errs) = 2
    /\ res.errs[1] # res.errs[2]

\* C5: arity is checked before any argument.  A call to a function with k
\* parameters that supplies m # k arguments fails with the one ArityMismatch
\* diagnostic naming the function, k and m, whatever its arguments are, and
\* leaves the environment as it was.
C5_ArityFirst ==
    (pc = "tagged" /\ CalleeIsFunction /\ Len(node.args) # Len(Params)) =>
        /\ res.st = "Err"
        /\ res.errs = <<"Function " \o node.func.name \o " expects "
                          \o ToString(Len(Params)) \o " argument(s), but "
                          \o ToString(Len(node.args)) \o " are provided.">>
        /\ env = env0

\* f, declared with two parameters, has been called with one argument that
\* is an undeclared variable: `expects 2 ... 1 are provided`.
C5_Witness ==
    /\ pc = "tagged"
    /\ CalleeIsFunction
    /\ node.func.name = "f"
    /\ Len(node.args) = 1
    /\ Arg(1).st = "Err"
    /\ res.errs = <<"Function f expects 2 argument(s), but 1 are provided.">>

\* C6: block scoping.  If statement i of a block binds n (let, let-mutable
\* or external declaration), position j > i refers to n, no statement
\* between them binds n and the statements before j check successfully, then
\* n is bound at j to the type statement i gave it (for let: the type of the
\* bound term), and in the tagged block the reference carries that type.
\* `let x = 1; x + 2` on the empty environment succeeds, trailing term and
\* block tagged Integer.
C6_BlockScoping ==
    (pc = "tagged" /\ cat = "Block") =>
        /\ \A i \in 1..Len(node.stmts), j \in Positions, n \in {"x", "z"} :
              (/\ i < j
               /\ BindsName(node.stmts[i], n)
               /\ RefersTo(j, n)
               /\ \A m \in (i + 1)..(j - 1) : ~BindsName(node.stmts[m], n)
               /\ Prefix(j - 1).st = "Ok")
                 => /\ Bound(Prefix(j - 1).env, n)
                    /\ Prefix(j - 1).env[n] = BoundType(Prefix(j - 1).val.stmts, i)
                    /\ res.st = "Ok" =>
                          TaggedRef(res.val, j).tag = BoundType(res.val.stmts, i)
        /\ (/\ node = Block(<<Let("x", Literal(1))>>,
                            <<Infix(Var("x"), "+", Literal(2))>>)
            /\ env0 = EmptyEnv)
              => /\ res.st = "Ok"
                 /\ res.val.end[1].tag = I32Ty
                 /\ res.val.tag = I32Ty

\* `let x = 1; x + 2` has been checked with nothing bound.
C6_Witness ==
    /\ pc = "tagged"
    /\ cat = "Block"
    /\ node = Block(<<Let("x", Literal(1))>>, <<Infix(Var("x"), "+", Literal(2))>>)
    /\ env0 = EmptyEnv
    /\ res.st = "Ok"

\* The diagnostics of a result: none if it is a success.
Errs(r) == IF r.st = "Err" THEN r.errs ELSE <<>>

RECURSIVE FirstNonEmpty(_)
\* The first non-empty list of a sequence of diagnostic lists (the empty
\* list if there is none): the outcome of steps run in order, fail-fast.
FirstNonEmpty(lists) ==
    IF lists = <<>> THEN <<>>
    ELSE IF Head(lists) # <<>> THEN Head(lists)
    ELSE FirstNonEmpty(Tail(lists))

RECURSIVE BlockSteps(_, _, _)
\* The steps of a block from statement i on, in environment e: statements in
\* order, each in the environment the ones before it left, then the
\* trailing term.  The diagnostics of the first failing one, and the
\* environment that one leaves.
BlockSteps(b, i, e) ==
    IF i > Len(b.stmts)
    THEN IF b.end = <<>> THEN [errs |-> <<>>, env |-> e]
         ELSE [errs |-> Errs(TagTerm(b.end[1], e)),
               env |-> TagTerm(b.end[1], e).env]
    ELSE LET r == TagStatement(b.stmts[i], e)
         IN IF r.st # "Ok" THEN [errs |-> Errs(r), env |-> r.env]
            ELSE BlockSteps(b, i + 1, r.env)

\* The operand-type test of an Infix whose operands are tagged.
OperandTest(l, r) ==
    IF l.st = "Ok" /\ r.st = "Ok"
          /\ ~(GetTag(l.val) = I32Ty /\ GetTag(r.val) = I32Ty)
    THEN <<"The left-hand-side of " \o node.op \o " has type "
             \o Display(GetTag(l.val))
             \o ", but the right-hand-side of it has type "
             \o Display(GetTag(r.val)) \o ".">>
    ELSE <<>>

\* The branch-equality test of an If whose branches are tagged.
BranchTest(th, el) ==
    IF th.st = "Ok" /\ el.st = "Ok" /\ GetTag(th.val) # GetTag(el.val)
    THEN <<"The term of the then part has type " \o Display(GetTag(th.val))
             \o ", but that of the else part has type "
             \o Display(GetTag(el.val)) \o ".">>
    ELSE <<>>

\* The condition-type test of a While whose condition is tagged.
CondTest(c) ==
    IF c.st = "Ok" /\ GetTag(c.val) # I32Ty
    THEN <<"The condition of a while loop should be of type I32">>
    ELSE <<>>

\* The arity test of a call whose callee is a function.
ArityTest ==
    IF CalleeIsFunction /\ Len(node.args) # Len(Params)
    THEN <<"Function " \o node.func.name \o " expects "
             \o ToString(Len(Params)) \o " argument(s), but "
             \o ToString(Len(node.args)) \o " are provided.">>
    ELSE <<>>

\* The arguments of a call as fail-fast steps: argument i fails with its own
\* diagnostics, or with the mismatch of its type.
ArgStep(i) ==
    IF Arg(i).st # "Ok" THEN Errs(Arg(i))
    ELSE IF Mismatching(i) THEN <<MismatchMessage(i)>> ELSE <<>>

ArgsFailFast ==
    IF CalleeIsFunction /\ Len(node.args) = Len(Params)
    THEN FirstNonEmpty([i \in 1..Len(node.args) |-> ArgStep(i)])
    ELSE <<>>

\* The arguments of a call as the code runs them: the first argument whose
\* own check fails ends the call with its diagnostics; if none does, the
\* mismatches of all positions are reported together.
ArgsAccumulating ==
    IF CalleeIsFunction /\ Len(node.args) = Len(Params)
    THEN IF FailingArgs # {} THEN Errs(Arg(FirstFailingArg))
         ELSE MismatchMessages(Len(node.args))
    ELSE <<>>

\* The diagnostics of the first failing step of the rule of the node under
\* check, run on env0, with args as the outcome of a call's arguments.
FirstFailure(args) ==
    CASE cat = "FunctionCall" -> Errs(TagFunctionCall(node, env0))
      [] cat = "Program" -> BlockSteps(node.main, 1, env0).errs
      [] cat = "Block" -> BlockSteps(node, 1, env0).errs
      [] cat = "Statement" ->
            IF node.k = "Extern" THEN <<>> ELSE Errs(TagTerm(node.term, env0))
      [] cat = "Term" ->
            CASE node.k = "Literal" -> <<>>
              [] node.k = "Var" ->
                    IF Bound(env0, node.name) THEN <<>>
                    ELSE <<"Undeclared variable " \o node.name \o ".">>
              [] node.k = "Infix" ->
                    LET l == TagTerm(node.left, env0)
                        r == TagTerm(node.right, env0)
                    IN FirstNonEmpty(<<Errs(l), Errs(r), OperandTest(l, r)>>)
              [] node.k = "Call" ->
                    FirstNonEmpty(<<Errs(TagFunctionCall(node.func, env0)),
                                    ArityTest, args>>)
              [] node.k = "Scope" -> BlockSteps(node.block, 1, env0).errs
              [] node.k = "If" ->
                    LET c == TagTerm(node.if_clause, env0)
                        th == TagTerm(node.then_clause, env0)
                        el == TagTerm(node.else_clause, env0)
                    IN FirstNonEmpty(<<Errs(c), Errs(th), Errs(el),
                                       BranchTest(th, el)>>)
              [] node.k = "While" ->
                    LET c == TagTerm(node.cond, env0)
                    IN FirstNonEmpty(<<Errs(c), CondTest(c),
                                       BlockSteps(node.block, 1, env0).errs>>)
              [] node.k = "Stmt" -> Errs(TagStatement(node.stmt, env0))

\* A result is a tagged tree or a non-empty diagnostic list, never both; a
\* failure holds the diagnostics of the first failing step and nothing
\* else, and a block that failed has run nothing after the failing step.
FailFast(args) ==
    pc = "tagged" =>
        /\ \/ res.st = "Ok" /\ DOMAIN res = {"st", "val"}
           \/ res.st = "Err" /\ DOMAIN res = {"st", "errs"} /\ res.errs # <<>>
        /\ Errs(res) = FirstFailure(args)
        /\ (res.st = "Err" /\ cat = "Block") => env = BlockSteps(node, 1, env0).env

\* C7 as stated: every rule is fail-fast, the arguments of a call included.
C7_Original == FailFast(ArgsFailFast)

\* C7 amended: every rule is fail-fast, except that in a call of matching
\* arity a mismatching argument type does not end the check: the arguments
\* after it are still checked, the first one whose own check fails ends the
\* call with its diagnostics alone, and if none fails the mismatches of all
\* positions are returned together.
C7_Amended == FailFast(ArgsAccumulating)

\* A block has failed at its second statement, after a first statement that
\* succeeded.
C7_Witness ==
    /\ pc = "tagged"
    /\ cat = "Block"
    /\ res.st = "Err"
    /\ Len(node.stmts) = 2
    /\ Prefix(1).st = "Ok"
    /\ TagStatement(node.stmts[2], Prefix(1).env).st = "Err"

RECURSIVE DeclaresForbidden(_, _)
\* Whether the bare tree n of category c holds an external declaration
\* whose declared type contains Forbidden.
DeclaresForbidden(c, n) ==
    CASE c = "FunctionCall" -> FALSE
      [] c = "Program" -> DeclaresForbidden("Block", n.main)
      [] c = "Block" ->
            \/ \E i \in 1..Len(n.stmts) : DeclaresForbidden("Statement", n.stmts[i])
            \/ \E i \in 1..Len(n.end) : DeclaresForbidden("Term", n.end[i])
      [] c = "Statement" ->
            IF n.k = "Extern" THEN HasForbidden(n.ty)
            ELSE DeclaresForbidden("Term", n.term)
      [] c = "Term" ->
            CASE n.k \in {"Literal", "Var"} -> FALSE
              [] n.k = "Infix" ->
                    \/ DeclaresForbidden("Term", n.left)
                    \/ DeclaresForbidden("Term", n.right)
              [] n.k = "Call" ->
                    \E i \in 1..Len(n.args) : DeclaresForbidden("Term", n.args[i])
              [] n.k = "Scope" -> DeclaresForbidden("Block", n.block)
              [] n.k = "If" ->
                    \/ DeclaresForbidden("Term", n.if_clause)
                    \/ DeclaresForbidden("Term", n.then_clause)
                    \/ DeclaresForbidden("Term", n.else_clause)
              [] n.k = "While" ->
                    \/ DeclaresForbidden("Term", n.cond)
                    \/ DeclaresForbidden("Block", n.block)
              [] n.k = "Stmt" -> DeclaresForbidden("Statement", n.stmt)

\* No type of environment e contains Forbidden.
ForbiddenFree(e) == \A n \in DOMAIN e : ~HasForbidden(e[n])

\* Neither the initial environment nor a declared type of the tree under
\* check contains Forbidden.
ForbiddenFreeInput == ForbiddenFree(env0) /\ ~DeclaresForbidden(cat, node)

RECURSIVE TagsWellPlaced(_, _)
\* In the tagged tree n of category c, every term, block and function-call
\* tag is free of Forbidden, and Forbidden is the tag of exactly the let,
\* let-mutable, assignment and external-declaration statements and of the
\* program node.
TagsWellPlaced(c, n) ==
    CASE c = "FunctionCall" -> ~HasForbidden(n.tag)
      [] c = "Program" -> n.tag = Forbidden /\ TagsWellPlaced("Block", n.main)
      [] c = "Block" ->
            /\ ~HasForbidden(n.tag)
            /\ \A i \in 1..Len(n.stmts) : TagsWellPlaced("Statement", n.stmts[i])
            /\ \A i \in 1..Len(n.end) : TagsWellPlaced("Term", n.end[i])
      [] c = "Statement" ->
            IF n.k = "TermSemicolon"
            THEN ~HasForbidden(n.tag) /\ TagsWellPlaced("Term", n.term)
            ELSE IF n.k \in {"Let", "LetMut", "Mutate"}
            THEN n.tag = Forbidden /\ TagsWellPlaced("Term", n.term)
            ELSE n.tag = Forbidden
      [] c = "Term" ->
            CASE n.k = "Stmt" -> TagsWellPlaced("Statement", n.stmt)
              [] n.k \in {"Literal", "Var"} -> ~HasForbidden(n.tag)
              [] n.k = "Infix" ->
                    /\ ~HasForbidden(n.tag)
                    /\ TagsWellPlaced("Term", n.left)
                    /\ TagsWellPlaced("Term", n.right)
              [] n.k = "Call" ->
                    /\ ~HasForbidden(n.tag)
                    /\ TagsWellPlaced("FunctionCall", n.func)
                    /\ \A i \in 1..Len(n.args) : TagsWellPlaced("Term", n.args[i])
              [] n.k = "Scope" ->
                    ~HasForbidden(n.tag) /\ TagsWellPlaced("Block", n.block)
              [] n.k = "If" ->
                    /\ ~HasForbidden(n.tag)
                    /\ TagsWellPlaced("Term", n.if_clause)
                    /\ TagsWellPlaced("Term", n.then_clause)
                    /\ TagsWellPlaced("Term", n.else_clause)
              [] n.k = "While" ->
                    /\ ~HasForbidden(n.tag)
                    /\ TagsWellPlaced("Term", n.cond)
                    /\ TagsWellPlaced("Block", n.block)

\* C8: Forbidden never reaches a rendering call site.  On an input whose
\* environment and declared types are free of Forbidden, the check never
\* panics in Display, the environment it leaves is free of Forbidden, and in
\* a tagged result Forbidden is the tag of the let, let-mutable, assignment
\* and external-declaration statements and of the program node only.
C8_ForbiddenNeverRendered ==
    (pc = "tagged" /\ ForbiddenFreeInput) =>
        /\ res.st # "Panic"
        /\ ForbiddenFree(env)
        /\ res.st = "Ok" => TagsWellPlaced(cat, res.val)

\* On an input free of Forbidden, an Infix whose left operand is a
\* statement wrapper (a let, tagged Forbidden) has failed the operand test
\* with a rendered diagnostic.
C8_Witness ==
    /\ pc = "tagged"
    /\ ForbiddenFreeInput
    /\ IsTerm("Infix")
    /\ node.left = Stmt(LetZ5)
    /\ res.st = "Err"
    /\ res.errs = <<"The left-hand-side of + has type Unit, but the right-hand-side of it has type I32.">>

\* C9: the If rule.  When the three clauses each check successfully on a
\* snapshot, the If succeeds exactly when the types of the two branches are
\* equal (enumerations: name and variant list), with that type as its tag,
\* whatever the type of the condition; otherwise it fails with the one
\* BranchTypeMismatch diagnostic naming the two rendered types.
C9_IfRule ==
    (/\ pc = "tagged"
     /\ IsTerm("If")
     /\ TagTerm(node.if_clause, env0).st = "Ok"
     /\ TagTerm(node.then_clause, env0).st = "Ok"
     /\ TagTerm(node.else_clause, env0).st = "Ok") =>
        LET then_ty == GetTag(TagTerm(node.then_clause, env0).val)
            else_ty == GetTag(TagTerm(node.else_clause, env0).val)
        IN IF then_ty = else_ty
           THEN res.st = "Ok" /\ res.val.tag = then_ty
           ELSE /\ res.st = "Err"
                /\ res.errs = <<"The term of the then part has type "
                                  \o Display(then_ty)
                                  \o ", but that of the else part has type "
                                  \o Display(else_ty) \o ".">>

\* An If with a condition of an enumeration type and branches of two
\* enumeration types of the same name has been checked: one diagnostic.
C9_Witness ==
    /\ pc = "tagged"
    /\ node = If(Var("e"), Var("e"), Var("d"))
    /\ env0 = EnvFull
    /\ res.st = "Err"
    /\ res.errs = <<"The term of the then part has type E, but that of the else part has type E.">>

\* C10: the frame effect of a statement.  An expression-statement and an
\* assignment leave the environment as it was, on success and on failure;
\* a let or let-mutable of n that succeeds changes only n, to the type of the
\* bound term, and one that fails changes nothing; an external declaration
\* of n changes only n, to the declared type.
C10_StatementFrame ==
    (pc = "tagged" /\ cat = "Statement") =>
        CASE node.k \in {"TermSemicolon", "Mutate"} -> env = env0
          [] node.k \in {"Let", "LetMut"} ->
                LET t == TagTerm(node.term, env0)
                IN IF t.st = "Ok"
                   THEN res.st = "Ok" /\ env = Insert(env0, node.name, GetTag(t.val))
                   ELSE res.st = "Err" /\ env = env0
          [] node.k = "Extern" ->
                res.st = "Ok" /\ env = Insert(env0, node.name, node.ty)

\* `let x = { let z = 5; z }` has been checked with z unbound: x is bound to
\* Integer and z is still unbound.
C10_Witness ==
    /\ pc = "tagged"
    /\ cat = "Statement"
    /\ node = Let("x", Scope(Block(<<LetZ5>>, <<Var("z")>>)))
    /\ res.st = "Ok"
    /\ ~Bound(env0, "z")
    /\ env = Insert(env0, "x", I32Ty)

(***************************************************************************)
(* The lexically scoped reference checker of C11: the rules of tag, with   *)
(* every term sub-computation on a snapshot.  The environment of a result  *)
(* is the one the next statement of the enclosing statement list sees.     *)
(***************************************************************************)
RECURSIVE Lex(_, _, _)
RECURSIVE LexArgs(_, _, _, _, _, _, _), LexStmts(_, _, _, _)

\* The argument loop of a call, every argument on a snapshot of e.
LexArgs(expected, args, i, has_error, tagged_args, errors, e) ==
    IF i > Len(args) \/ i > Len(expected)
    THEN [st |-> "Done", tagged_args |-> tagged_args, errors |-> errors,
          env |-> e]
    ELSE LET expected_ty == expected[i]
             a == Lex("Term", args[i], e)
         IN IF a.st # "Ok" THEN OnClone(a, e)
            ELSE LET pushed == PushArg(has_error, tagged_args, a.val)
                     actual_ty == GetTag(a.val)
                 IN IF expected_ty # actual_ty
                    THEN IF HasForbidden(expected_ty) \/ HasForbidden(actual_ty)
                         THEN Panic(e)
                         ELSE LexArgs(expected, args, i + 1, TRUE, pushed,
                                  Append(errors,
                                     "Expect term of type " \o Display(expected_ty)
                                       \o ", found term of type "
                                       \o Display(actual_ty) \o "."), e)
                    ELSE LexArgs(expected, args, i + 1, has_error, pushed,
                                 errors, e)

\* A term: whatever its parts bind, it leaves e as it found it.
LexTerm(t, e) ==
    CASE t.k = "Literal" -> Ok(WithTag(I32Ty, t), e)
      [] t.k = "Var" ->
            IF Bound(e, t.name) THEN Ok(WithTag(e[t.name], t), e)
            ELSE Err(<<"Undeclared variable " \o t.name \o ".">>, e)
      [] t.k = "Infix" ->
            LET l == Lex("Term", t.left, e)
            IN IF l.st # "Ok" THEN OnClone(l, e)
               ELSE LET r == Lex("Term", t.right, e)
                    IN IF r.st # "Ok" THEN OnClone(r, e)
                       ELSE InfixEnd(t, l.val, r.val, e)
      [] t.k = "Call" ->
            LET typed_func == TagFunctionCall(t.func, e)
            IN IF typed_func.st # "Ok" THEN typed_func
               ELSE LET expected_args_types == typed_func.val.tag.args
                        expected_arity == Len(expected_args_types)
                        actual_arity == Len(t.args)
                    IN IF expected_arity = actual_arity
                       THEN LET loop == LexArgs(expected_args_types, t.args, 1,
                                                FALSE, <<>>, <<>>, e)
                            IN IF loop.st # "Done" THEN loop
                               ELSE IF Len(loop.errors) = 0
                               THEN Ok([k |-> "Call", tag |-> typed_func.val.tag.ret,
                                        func |-> typed_func.val,
                                        args |-> loop.tagged_args], e)
                               ELSE Err(loop.errors, e)
                       ELSE Err(<<ArityMessage(t.func.name, expected_arity,
                                               actual_arity)>>, e)
      [] t.k = "Scope" ->
            LET b == Lex("Block", t.block, e)
            IN IF b.st # "Ok" THEN OnClone(b, e)
               ELSE Ok([k |-> "Scope", tag |-> b.val.tag, block |-> b.val], e)
      [] t.k = "If" ->
            LET c == Lex("Term", t.if_clause, e)
            IN IF c.st # "Ok" THEN OnClone(c, e)
               ELSE LET th == Lex("Term", t.then_clause, e)
                    IN IF th.st # "Ok" THEN OnClone(th, e)
                       ELSE LET el == Lex("Term", t.else_clause, e)
                            IN IF el.st # "Ok" THEN OnClone(el, e)
                               ELSE IfEnd(c.val, th.val, el.val, e)
      [] t.k = "While" ->
            LET c == Lex("Term", t.cond, e)
            IN IF c.st # "Ok" THEN OnClone(c, e)
               ELSE IF GetTag(c.val) # I32Ty
               THEN Err(<<"The condition of a while loop should be of type I32">>,
                        e)
               ELSE LET b == Lex("Block", t.block, e)
                    IN IF b.st # "Ok" THEN OnClone(b, e)
                       ELSE Ok([k |-> "While", tag |-> b.val.tag, cond |-> c.val,
                                block |-> b.val], e)
      [] t.k = "Stmt" ->
            LET s == Lex("Statement", t.stmt, e)
            IN IF s.st # "Ok" THEN OnClone(s, e)
               ELSE Ok([k |-> "Stmt", stmt |-> s.val], e)

\* A statement: its term on a snapshot; a let, let-mutable or external
\* declaration extends e for what follows it in its statement list.
LexStatement(s, e) ==
    IF s.k = "Extern"
    THEN Ok([k |-> "Extern", tag |-> Forbidden, name |-> s.name, ty |-> s.ty],
            Insert(e, s.name, s.ty))
    ELSE LET tagged_term == Lex("Term", s.term, e)
         IN IF tagged_term.st # "Ok" THEN OnClone(tagged_term, e)
            ELSE IF s.k = "TermSemicolon"
            THEN Ok([k |-> "TermSemicolon", tag |-> unit_enum,
                     term |-> tagged_term.val], e)
            ELSE Ok([k |-> s.k, tag |-> Forbidden, name |-> s.name,
                     term |-> tagged_term.val],
                    IF s.k = "Mutate" THEN e
                    ELSE Insert(e, s.name, GetTag(tagged_term.val)))

\* The statement list of a block from statement i on, each statement in the
\* environment the declarations before it extended.
LexStmts(stmts, i, tagged_stmts, e) ==
    IF i > Len(stmts)
    THEN [st |-> "Done", tagged_stmts |-> tagged_stmts, env |-> e]
    ELSE LET tagged_stmt == Lex("Statement", stmts[i], e)
         IN IF tagged_stmt.st # "Ok" THEN tagged_stmt
            ELSE LexStmts(stmts, i + 1, Append(tagged_stmts, tagged_stmt.val),
                          tagged_stmt.env)

\* A block: its declarations are seen by its own later statements and its
\* trailing term, and by nothing outside it.
LexBlock(b, e) ==
    LET loop == LexStmts(b.stmts, 1, <<>>, e)
    IN IF loop.st # "Done" THEN OnClone(loop, e)
       ELSE IF b.end = <<>>
       THEN Ok([tag |-> unit_enum, stmts |-> loop.tagged_stmts, end |-> <<>>], e)
       ELSE LET end == Lex("Term", b.end[1], loop.env)
            IN IF end.st # "Ok" THEN OnClone(end, e)
               ELSE Ok([tag |-> GetTag(end.val), stmts |-> loop.tagged_stmts,
                        end |-> <<end.val>>], e)

Lex(c, n, e) ==
    CASE c = "Term" -> LexTerm(n, e)
      [] c = "Statement" -> LexStatement(n, e)
      [] c = "Block" -> LexBlock(n, e)

LexProgram(p, e) ==
    LET main == Lex("Block", p.main, e)
    IN IF main.st # "Ok" THEN main
       ELSE Ok([tag |-> Forbidden, main |-> main.val], e)

\* The outcome of a check: the tagged tree or the diagnostic list, without
\* the environment left behind.
Verdict(r) == [f \in (DOMAIN r) \ {"env"} |-> r[f]]

\* The outcome of the reference checker on the input under check.
LexVerdict ==
    IF cat = "Program" THEN Verdict(LexProgram(node, env0))
    ELSE Verdict(Lex(cat, node, env0))

\* The names the check bound, or bound anew, in the environment it was given.
Threaded == {n \in DOMAIN env : ~Bound(env0, n) \/ env[n] # env0[n]}

\* C11: threading never changes a verdict.  The outcome of the check of a
\* term, statement, block or program (the tagged tree, or the diagnostic
\* list) is the outcome of the lexically scoped reference checker on the same
\* input and environment.
C11_ThreadingKeepsVerdict ==
    (pc = "tagged" /\ cat \in {"Term", "Statement", "Block", "Program"}) =>
        res = LexVerdict

\* A program whose statement, and whose trailing scope, hold a term that
\* binds z in the live environment has been checked, and a reference to z
\* follows each.
C11_Witness ==
    /\ pc = "tagged"
    /\ cat = "Program"
    /\ node.main.stmts = <<TermSemicolon(LoopZ)>>
    /\ node.main.end[1].k = "Scope"
    /\ node.main.end[1].block.stmts = <<Let("x", LoopZ)>>
    /\ node.main.end[1].block.end = <<Var("z")>>
    /\ "x" \in Threaded
    /\ res = LexVerdict

\* An assignment statement is under check.
IsMutate == cat = "Statement" /\ node.k = "Mutate"

\* The assigned term, checked on a snapshot of the environment the
\* assignment was given.
AssignedTerm == TagTerm(node.term, env0)

\* C12: assignment is unchecked against the environment.  Checking `n = t`
\* succeeds exactly when t checks successfully on a snapshot of the
\* environment, and then with tag Forbidden around the tagged t; when it
\* fails its diagnostics are those of t alone, whether n is unbound, bound to
\* the type of t or bound to another type; and n is bound afterwards exactly
\* as it was before.
C12_AssignmentUnchecked ==
    (pc = "tagged" /\ IsMutate) =>
        /\ res.st = AssignedTerm.st
        /\ res.st = "Ok" =>
              res.val = [k |-> "Mutate", tag |-> Forbidden, name |-> node.name,
                         term |-> AssignedTerm.val]
        /\ res.st = "Err" => res.errs = AssignedTerm.errs
        /\ Bound(env, node.name) <=> Bound(env0, node.name)
        /\ Bound(env0, node.name) => env[node.name] = env0[node.name]

\* `z = 1` has been checked with z bound to an enumeration, and has succeeded.
C12_Witness ==
    /\ pc = "tagged"
    /\ IsMutate
    /\ node = Mutate("z", Literal(1))
    /\ Bound(env0, "z")
    /\ env0["z"] = EnumE
    /\ res.st = "Ok"

====
